---- MODULE Spec2Model ----
(***************************************************************************)
(* Audio-to-UI bridge of example-druid-audio-viz (src/src/main.rs).        *)
(*                                                                         *)
(* Three threads: the audio callback pushes samples into a bounded queue,  *)
(* generate_audio_updates ("the pump") drains the queue into a ring buffer *)
(* and submits a clone of it to the druid event sink, and the UI thread    *)
(* delivers the commands to AudioWave::event.                              *)
(***************************************************************************)
EXTENDS Integers, Sequences, FiniteSets, TLC

\* ---- bounds -------------------------------------------------------------
\* Length of the display buffer.  The program uses 5 * 4410; the model keeps
\* the ring arithmetic and scales the length down.
BufLen == 2
\* Capacity of the sample queue (chosen by BufferAnalyserProcessor).
QueueCap == 1
\* Number of calls of the audio callback that are explored.
MaxProduced == 3
\* Number of pump iterations explored while the sink is open.
MaxTicks == 2
\* Largest sample value; 0 stands for 0.0, the other values for other floats.
MaxSample == 1

\* Longest snapshot handed to paint.
MaxPaintLen == 3
\* Widest drawing area handed to paint; widths are whole numbers from 1 on.
MaxWidth == 3
\* Number of calls of paint explored on one view state.
MaxPaints == 2

Samples == 0..MaxSample

VARIABLES
    queue,          \* Queue<f32> shared by the audio callback and the pump
    produced,       \* history: every sample the audio callback tried to push
    streamsAlive,   \* _audio_streams has not been dropped
    buffer,         \* generate_audio_updates: buffer
    position,       \* generate_audio_updates: position
    pumpPc,         \* where the pump is: "drain", "publish", "sleep", "terminated"
    written,        \* history: samples written into buffer, in order
    popped,         \* number of samples popped in the current iteration
    tick,           \* number of iterations of `loop` started
    attempts,       \* number of submit_command calls made
    lateAttempts,   \* number of submit_command calls made after the sink closed
    emitted,        \* history: commands accepted by the sink
    sink,           \* commands in flight in the event sink
    sinkOpen,       \* the UI still accepts commands
    mainPc,         \* where main is: "launch", "returned", "exited"
    data,           \* AudioData held by the UI
    delivered,      \* number of DRAW_AUDIO commands handled by AudioWave::event
    paintRequested, \* ctx.request_paint() was called and no paint ran since
    lastEvent,      \* what the UI thread handled last
    paintPc,        \* where AudioWave::paint is: "idle", "loop", "done", "panic"
    width,          \* paint: size.width
    index,          \* paint: index
    prev,           \* paint: prev
    shape,          \* paint: the elements appended to the BezPath
    stroked,        \* paint: ctx.stroke was called
    paints,         \* number of calls of paint that returned
    firstShape      \* what the first call of paint drew

vars == <<queue, produced, streamsAlive, buffer, position, pumpPc, written,
          popped, tick, attempts, lateAttempts, emitted, sink, sinkOpen,
          mainPc, data, delivered, paintRequested, lastEvent,
          paintPc, width, index, prev, shape, stroked, paints, firstShape>>

audioVars == <<queue, produced, streamsAlive>>
pumpVars == <<buffer, position, pumpPc, written, popped, tick, attempts,
              lateAttempts, emitted>>
uiVars == <<data, delivered, paintRequested, lastEvent>>
paintVars == <<paintPc, width, index, prev, shape, stroked, paints, firstShape>>

\* ---- helpers ------------------------------------------------------------
DRAW_AUDIO == "event-example.draw_audio"

buffer_size == BufLen

\* buffer.resize(5 * 4410, 0.0)
InitialBuffer == [j \in 1..buffer_size |-> 0]

\* Queue::push: non-blocking, refuses when the queue holds QueueCap samples.
QueueFull(q) == Len(q) >= QueueCap

\* Faulty variant: a full queue gives up its oldest sample for the new one.
QueuePush_Overwrite(q, s) == IF QueueFull(q) THEN Append(Tail(q), s) ELSE Append(q, s)

QueuePush(q, s) == IF QueueFull(q) THEN q ELSE Append(q, s)

\* Queue::pop: None on an empty queue, else the oldest sample.
QueuePopIsSome(q) == Len(q) > 0

QueuePopValue(q) == Head(q)

QueuePopRest(q) == Tail(q)

\* Faulty variant: the sample is pushed at the end of the vector.
VecSet_Push(v, idx, s) == Append(v, s)

\* Writing slot `idx` (0-based, as in the code) of a vector.
VecSet(v, idx, s) == [v EXCEPT ![idx + 1] = s]

\* Vec::clone: a new vector with the same elements.
VecClone(v) == [j \in 1..Len(v) |-> v[j]]

\* Faulty variant: the write cursor runs one slot ahead.
WriteIndex_Ahead(pos) == (pos + 1) % buffer_size

\* buffer[position % buffer_size]: the slot a sample is written to.
WriteIndex(pos) == pos % buffer_size

\* The ring read from its oldest slot on.
Rotated(buf, pos) == [j \in 1..Len(buf) |-> buf[((pos + j - 1) % Len(buf)) + 1]]

\* Faulty variant: the snapshot is rotated to start at the oldest sample.
SnapshotOf_Rotated(buf, pos) == Rotated(buf, pos)

\* The payload of the command: buffer.clone(), slot for slot.
SnapshotOf(buf, pos) == VecClone(buf)

\* The samples the queue accepted, in the order they were pushed.
RECURSIVE AcceptedSamples(_)
AcceptedSamples(h) ==
    IF h = <<>> THEN <<>>
    ELSE IF h[1].ok THEN <<h[1].sample>> \o AcceptedSamples(Tail(h))
         ELSE AcceptedSamples(Tail(h))

\* Faulty variant: states are compared element for element.
same_Elementwise(a, b) == a = b

\* Every sample the audio callback tried to push, accepted or not.
ProducedSamples(h) == [k \in 1..Len(h) |-> h[k].sample]

\* a can be obtained from b by deleting elements of b.
RECURSIVE IsSubsequence(_, _)
IsSubsequence(a, b) ==
    IF a = <<>> THEN TRUE
    ELSE IF b = <<>> THEN FALSE
    ELSE IF a[1] = b[1] THEN IsSubsequence(Tail(a), Tail(b))
    ELSE IsSubsequence(a, Tail(b))

\* AudioData::same
same(a, b) == FALSE

\* AudioWave::update: ctx.request_paint()
update(old, new) == TRUE

\* ---- initial state --------------------------------------------------------
\* No call of paint has been made.
PaintIdle ==
    /\ paintPc = "idle"
    /\ index = 0
    /\ prev = 0
    /\ shape = <<>>
    /\ stroked = FALSE
    /\ paints = 0
    /\ firstShape = [shape |-> <<>>, stroked |-> FALSE]

\* Faulty variant: the stream handle is not bound to a variable and is
\* dropped at once.
Init_StreamsNotKept ==
    /\ queue = <<>>
    /\ produced = <<>>
    /\ streamsAlive = FALSE
    /\ buffer = InitialBuffer
    /\ position = 0
    /\ pumpPc = "drain"
    /\ written = <<>>
    /\ popped = 0
    /\ tick = 1
    /\ attempts = 0
    /\ lateAttempts = 0
    /\ emitted = <<>>
    /\ sink = <<>>
    /\ sinkOpen = TRUE
    /\ mainPc = "launch"
    /\ data = <<>>
    /\ delivered = 0
    /\ paintRequested = TRUE
    /\ lastEvent = "none"
    /\ PaintIdle
    /\ width = 0

\* The state when main has spawned the pump and launches the UI.
Init ==
    /\ queue = <<>>
    /\ produced = <<>>
    /\ streamsAlive = TRUE
    /\ buffer = InitialBuffer
    /\ position = 0
    /\ pumpPc = "drain"
    /\ written = <<>>
    /\ popped = 0
    /\ tick = 1
    /\ attempts = 0
    /\ lateAttempts = 0
    /\ emitted = <<>>
    /\ sink = <<>>
    /\ sinkOpen = TRUE
    /\ mainPc = "launch"
    /\ data = <<>>
    /\ delivered = 0
    /\ paintRequested = TRUE
    /\ lastEvent = "none"
    /\ PaintIdle
    /\ width = 0

\* ---- audio thread ---------------------------------------------------------
\* The audio callback of BufferAnalyserProcessor: push one sample, drop it
\* when the queue is full.
AudioCallback ==
    /\ streamsAlive
    /\ Len(produced) < MaxProduced
    /\ \E s \in Samples :
        /\ produced' = Append(produced, [sample |-> s, ok |-> ~QueueFull(queue)])
        /\ queue' = QueuePush(queue, s)
    /\ UNCHANGED <<streamsAlive, pumpVars, sink, sinkOpen, mainPc, uiVars>>
    /\ UNCHANGED paintVars

\* ---- pump thread ----------------------------------------------------------
\* Faulty variant: the pump leaves its loop when the queue is empty.
PumpPop_BreakOnEmpty ==
    /\ pumpPc = "drain"
    /\ IF QueuePopIsSome(queue)
       THEN /\ buffer' = VecSet(buffer, WriteIndex(position), QueuePopValue(queue))
            /\ position' = position + 1
            /\ written' = Append(written, QueuePopValue(queue))
            /\ popped' = popped + 1
            /\ queue' = QueuePopRest(queue)
            /\ pumpPc' = "drain"
       ELSE /\ pumpPc' = IF popped = 0 THEN "terminated" ELSE "publish"
            /\ UNCHANGED <<buffer, position, written, popped, queue>>
    /\ UNCHANGED <<produced, streamsAlive, tick, attempts, lateAttempts,
                   emitted, sink, sinkOpen, mainPc, uiVars>>
    /\ UNCHANGED paintVars

\* Faulty variant: the commands in flight share the storage of the display
\* buffer instead of owning a copy of it.
PumpPop_Aliased ==
    /\ pumpPc = "drain"
    /\ IF QueuePopIsSome(queue)
       THEN /\ buffer' = VecSet(buffer, WriteIndex(position), QueuePopValue(queue))
            /\ position' = position + 1
            /\ written' = Append(written, QueuePopValue(queue))
            /\ popped' = popped + 1
            /\ queue' = QueuePopRest(queue)
            /\ pumpPc' = "drain"
            /\ sink' = [k \in 1..Len(sink) |-> [sink[k] EXCEPT !.payload = buffer']]
       ELSE /\ pumpPc' = "publish"
            /\ UNCHANGED <<buffer, position, written, popped, queue, sink>>
    /\ UNCHANGED <<produced, streamsAlive, tick, attempts, lateAttempts,
                   emitted, sinkOpen, mainPc, uiVars>>
    /\ UNCHANGED paintVars

\* Faulty variant: the first sample of an iteration is read without being
\* consumed, so it is written again by the next pop.
PumpPop_Peek ==
    /\ pumpPc = "drain"
    /\ IF QueuePopIsSome(queue)
       THEN /\ buffer' = VecSet(buffer, WriteIndex(position), QueuePopValue(queue))
            /\ position' = position + 1
            /\ written' = Append(written, QueuePopValue(queue))
            /\ popped' = popped + 1
            /\ queue' = IF popped = 0 THEN queue ELSE QueuePopRest(queue)
            /\ pumpPc' = "drain"
       ELSE /\ pumpPc' = "publish"
            /\ UNCHANGED <<buffer, position, written, popped, queue>>
    /\ UNCHANGED <<produced, streamsAlive, tick, attempts, lateAttempts,
                   emitted, sink, sinkOpen, mainPc, uiVars>>
    /\ UNCHANGED paintVars

\* Faulty variant: an empty pop is taken for a sample of value 0.0 once per
\* iteration.
PumpPop_Fabricate ==
    /\ pumpPc = "drain"
    /\ IF QueuePopIsSome(queue)
       THEN /\ buffer' = VecSet(buffer, WriteIndex(position), QueuePopValue(queue))
            /\ position' = position + 1
            /\ written' = Append(written, QueuePopValue(queue))
            /\ popped' = popped + 1
            /\ queue' = QueuePopRest(queue)
            /\ pumpPc' = "drain"
       ELSE /\ buffer' = VecSet(buffer, WriteIndex(position), 0)
            /\ position' = position + 1
            /\ written' = Append(written, 0)
            /\ pumpPc' = "publish"
            /\ UNCHANGED <<popped, queue>>
    /\ UNCHANGED <<produced, streamsAlive, tick, attempts, lateAttempts,
                   emitted, sink, sinkOpen, mainPc, uiVars>>
    /\ UNCHANGED paintVars

\* Faulty variant: the snapshot is published from inside the drain loop,
\* after every sample.
PumpPop_PublishEarly ==
    /\ pumpPc = "drain"
    /\ IF QueuePopIsSome(queue)
       THEN /\ buffer' = VecSet(buffer, WriteIndex(position), QueuePopValue(queue))
            /\ position' = position + 1
            /\ written' = Append(written, QueuePopValue(queue))
            /\ popped' = popped + 1
            /\ queue' = QueuePopRest(queue)
            /\ pumpPc' = "publish"
       ELSE /\ pumpPc' = "publish"
            /\ UNCHANGED <<buffer, position, written, popped, queue>>
    /\ UNCHANGED <<produced, streamsAlive, tick, attempts, lateAttempts,
                   emitted, sink, sinkOpen, mainPc, uiVars>>
    /\ UNCHANGED paintVars

\* One evaluation of `while let Some(sample) = queue_handle.pop()`, with the
\* loop body when a sample was obtained.
PumpPop ==
    /\ pumpPc = "drain"
    /\ IF QueuePopIsSome(queue)
       THEN /\ buffer' = VecSet(buffer, WriteIndex(position), QueuePopValue(queue))
            /\ position' = position + 1
            /\ written' = Append(written, QueuePopValue(queue))
            /\ popped' = popped + 1
            /\ queue' = QueuePopRest(queue)
            /\ pumpPc' = "drain"
       ELSE /\ pumpPc' = "publish"
            /\ UNCHANGED <<buffer, position, written, popped, queue>>
    /\ UNCHANGED <<produced, streamsAlive, tick, attempts, lateAttempts,
                   emitted, sink, sinkOpen, mainPc, uiVars>>
    /\ UNCHANGED paintVars

\* Faulty variant: the result of submit_command is ignored.
PumpSubmit_NoBreak ==
    /\ pumpPc = "publish"
    /\ attempts' = attempts + 1
    /\ IF sinkOpen
       THEN /\ sink' = Append(sink, [selector |-> DRAW_AUDIO, payload |-> SnapshotOf(buffer, position)])
            /\ emitted' = Append(emitted, [snapshot |-> SnapshotOf(buffer, position),
                                           position |-> position,
                                           popped |-> popped])
            /\ pumpPc' = "sleep"
            /\ UNCHANGED lateAttempts
       ELSE /\ pumpPc' = "sleep"
            /\ lateAttempts' = lateAttempts + 1
            /\ UNCHANGED <<sink, emitted>>
    /\ UNCHANGED <<audioVars, buffer, position, written, popped, tick,
                   sinkOpen, mainPc, uiVars>>
    /\ UNCHANGED paintVars

\* Faulty variant: an iteration that drained nothing does not publish again.
PumpSubmit_SkipIdle ==
    /\ pumpPc = "publish"
    /\ IF sinkOpen
       THEN /\ pumpPc' = "sleep"
            /\ IF popped = 0 /\ attempts > 0
               THEN UNCHANGED <<sink, emitted, attempts>>
               ELSE /\ attempts' = attempts + 1
                    /\ sink' = Append(sink, [selector |-> DRAW_AUDIO, payload |-> SnapshotOf(buffer, position)])
                    /\ emitted' = Append(emitted, [snapshot |-> SnapshotOf(buffer, position),
                                                   position |-> position,
                                                   popped |-> popped])
            /\ UNCHANGED lateAttempts
       ELSE /\ pumpPc' = "terminated"
            /\ attempts' = attempts + 1
            /\ lateAttempts' = lateAttempts + 1
            /\ UNCHANGED <<sink, emitted>>
    /\ UNCHANGED <<audioVars, buffer, position, written, popped, tick,
                   sinkOpen, mainPc, uiVars>>
    /\ UNCHANGED paintVars

\* event_sink.submit_command(DRAW_AUDIO, buffer.clone(), Target::Auto),
\* and `break` when it is an error.
PumpSubmit ==
    /\ pumpPc = "publish"
    /\ attempts' = attempts + 1
    /\ IF sinkOpen
       THEN /\ sink' = Append(sink, [selector |-> DRAW_AUDIO, payload |-> SnapshotOf(buffer, position)])
            /\ emitted' = Append(emitted, [snapshot |-> SnapshotOf(buffer, position),
                                           position |-> position,
                                           popped |-> popped])
            /\ pumpPc' = "sleep"
            /\ UNCHANGED lateAttempts
       ELSE /\ pumpPc' = "terminated"
            /\ lateAttempts' = lateAttempts + 1
            /\ UNCHANGED <<sink, emitted>>
    /\ UNCHANGED <<audioVars, buffer, position, written, popped, tick,
                   sinkOpen, mainPc, uiVars>>
    /\ UNCHANGED paintVars

\* thread::sleep(Duration::from_millis(100)), then the next iteration.
PumpSleep ==
    /\ pumpPc = "sleep"
    /\ tick < MaxTicks \/ (~sinkOpen /\ tick <= MaxTicks)
    /\ pumpPc' = "drain"
    /\ tick' = tick + 1
    /\ popped' = 0
    /\ UNCHANGED <<audioVars, buffer, position, written, attempts,
                   lateAttempts, emitted, sink, sinkOpen, mainPc, uiVars>>
    /\ UNCHANGED paintVars

\* ---- UI thread ------------------------------------------------------------
\* druid calls Widget::update after an event when !old.same(new).
AfterEvent(old, new) == IF same(old, new) THEN paintRequested ELSE update(old, new)

\* Faulty variant: the UI takes the newest command in flight first.
UiDrawAudio_Newest ==
    /\ mainPc = "launch"
    /\ sink # <<>>
    /\ sink[Len(sink)].selector = DRAW_AUDIO
    /\ data' = VecClone(sink[Len(sink)].payload)
    /\ sink' = SubSeq(sink, 1, Len(sink) - 1)
    /\ delivered' = delivered + 1
    /\ paintRequested' = AfterEvent(data, data')
    /\ lastEvent' = IF data = sink[Len(sink)].payload THEN "draw_same" ELSE "draw_new"
    /\ UNCHANGED <<audioVars, pumpVars, sinkOpen, mainPc>>
    /\ UNCHANGED paintVars

\* AudioWave::event on Event::Command(cmd) if cmd.is(DRAW_AUDIO).
UiDrawAudio ==
    /\ mainPc = "launch"
    /\ sink # <<>>
    /\ Head(sink).selector = DRAW_AUDIO
    /\ data' = VecClone(Head(sink).payload)
    /\ sink' = Tail(sink)
    /\ delivered' = delivered + 1
    /\ paintRequested' = AfterEvent(data, data')
    /\ lastEvent' = IF data = Head(sink).payload THEN "draw_same" ELSE "draw_new"
    /\ UNCHANGED <<audioVars, pumpVars, sinkOpen, mainPc>>
    /\ UNCHANGED paintVars

\* Faulty variant: the catch-all arm resets the view state.
UiOtherEvent_Reset ==
    /\ mainPc = "launch"
    /\ lastEvent' = "other"
    /\ data' = <<>>
    /\ paintRequested' = AfterEvent(data, data')
    /\ UNCHANGED <<audioVars, pumpVars, sink, sinkOpen, mainPc, delivered>>
    /\ UNCHANGED paintVars

\* AudioWave::event on any other command or event: `_ => ()`.
UiOtherEvent ==
    /\ mainPc = "launch"
    /\ lastEvent' = "other"
    /\ paintRequested' = AfterEvent(data, data)
    /\ UNCHANGED <<audioVars, pumpVars, sink, sinkOpen, mainPc, data, delivered>>
    /\ UNCHANGED paintVars

\* AudioWave::lifecycle: empty body, the data is borrowed immutably.
UiLifecycle ==
    /\ mainPc = "launch"
    /\ lastEvent' = "passive"
    /\ UNCHANGED <<audioVars, pumpVars, sink, sinkOpen, mainPc, data,
                   delivered, paintRequested>>
    /\ UNCHANGED paintVars

\* AudioWave::layout: returns bc.max(), the data is borrowed immutably.
UiLayout ==
    /\ mainPc = "launch"
    /\ lastEvent' = "passive"
    /\ UNCHANGED <<audioVars, pumpVars, sink, sinkOpen, mainPc, data,
                   delivered, paintRequested>>
    /\ UNCHANGED paintVars

\* AudioWave::paint, run by druid when a paint was requested.
UiPaint ==
    /\ mainPc = "launch"
    /\ paintRequested
    /\ paintRequested' = FALSE
    /\ lastEvent' = "paint"
    /\ UNCHANGED <<audioVars, pumpVars, sink, sinkOpen, mainPc, data, delivered>>
    /\ UNCHANGED paintVars

\* The window closes: launcher.launch(..) returns and the sink rejects
\* further commands.
UiClose ==
    /\ mainPc = "launch"
    /\ mainPc' = "returned"
    /\ sinkOpen' = FALSE
    /\ UNCHANGED <<audioVars, pumpVars, sink, uiVars>>
    /\ UNCHANGED paintVars

\* main returns: _audio_streams is dropped.
MainExit ==
    /\ mainPc = "returned"
    /\ mainPc' = "exited"
    /\ streamsAlive' = FALSE
    /\ UNCHANGED <<queue, produced, pumpVars, sink, sinkOpen, uiVars>>
    /\ UNCHANGED paintVars

Next ==
    \/ AudioCallback
    \/ PumpPop
    \/ PumpSubmit
    \/ PumpSleep
    \/ UiDrawAudio
    \/ UiOtherEvent
    \/ UiLifecycle
    \/ UiLayout
    \/ UiPaint
    \/ UiClose
    \/ MainExit

Spec == Init /\ [][Next]_vars

PumpStep == PumpPop \/ PumpSubmit \/ PumpSleep

\* The pump thread and main keep being scheduled.
FairSpec == Spec /\ WF_vars(PumpStep) /\ WF_vars(MainExit)

TypeOK ==
    /\ Len(queue) <= QueueCap
    /\ position \in 0..MaxProduced
    /\ pumpPc \in {"drain", "publish", "sleep", "terminated"}
    /\ mainPc \in {"launch", "returned", "exited"}
\* ---- AudioWave::paint, step by step -----------------------------------------
\* The view states paint is called on: the empty one of the launch and
\* snapshots of every length up to MaxPaintLen.
PaintInputs == UNION {[1..n -> Samples] : n \in 0..MaxPaintLen}

\* let step = ((num_points as f64) / width) as usize
Step(num_points, w) == num_points \div w

\* The elements one iteration appends to the path: move_to at the previous
\* sample, then line_to at the item and at its negation.  x is kept as the
\* numerator of (f_index / len) * width, y as the sample that is scaled.
PathElements(idx, w, prevSample, item) ==
    << [op |-> "move_to", x |-> idx * w, y |-> prevSample],
       [op |-> "line_to", x |-> (idx + 1) * w, y |-> item],
       [op |-> "line_to", x |-> (idx + 1) * w, y |-> 0 - item] >>

\* Faulty variant: the emptiness check is missing, data[0] panics.
PaintBegin_NoEmptyCheck ==
    /\ paintPc \in {"idle", "done"}
    /\ paints < MaxPaints
    /\ IF data = <<>>
       THEN /\ paintPc' = "panic"
            /\ UNCHANGED <<index, prev, shape, stroked, paints, firstShape>>
       ELSE /\ prev' = data[1]
            /\ index' = 0
            /\ shape' = <<>>
            /\ stroked' = FALSE
            /\ paintPc' = "loop"
            /\ UNCHANGED <<paints, firstShape>>
    /\ UNCHANGED <<audioVars, pumpVars, sink, sinkOpen, mainPc, uiVars, width>>

\* Faulty variant: prev is kept from the previous call instead of being set
\* to data[0].
PaintBegin_KeepPrev ==
    /\ paintPc \in {"idle", "done"}
    /\ paints < MaxPaints
    /\ IF data = <<>>
       THEN /\ paintPc' = "done"
            /\ shape' = <<>>
            /\ stroked' = FALSE
            /\ paints' = paints + 1
            /\ firstShape' = IF paints = 0
                             THEN [shape |-> <<>>, stroked |-> FALSE]
                             ELSE firstShape
            /\ UNCHANGED <<index, prev>>
       ELSE /\ prev' = IF paints = 0 THEN data[1] ELSE prev
            /\ index' = 0
            /\ shape' = <<>>
            /\ stroked' = FALSE
            /\ paintPc' = "loop"
            /\ UNCHANGED <<paints, firstShape>>
    /\ UNCHANGED <<audioVars, pumpVars, sink, sinkOpen, mainPc, uiVars, width>>

\* paint up to the loop: return on an empty snapshot, else set prev, index
\* and a new path.
PaintBegin ==
    /\ paintPc \in {"idle", "done"}
    /\ paints < MaxPaints
    /\ IF data = <<>>
       THEN /\ paintPc' = "done"
            /\ shape' = <<>>
            /\ stroked' = FALSE
            /\ paints' = paints + 1
            /\ firstShape' = IF paints = 0
                             THEN [shape |-> <<>>, stroked |-> FALSE]
                             ELSE firstShape
            /\ UNCHANGED <<index, prev>>
       ELSE /\ prev' = data[1]
            /\ index' = 0
            /\ shape' = <<>>
            /\ stroked' = FALSE
            /\ paintPc' = "loop"
            /\ UNCHANGED <<paints, firstShape>>
    /\ UNCHANGED <<audioVars, pumpVars, sink, sinkOpen, mainPc, uiVars, width>>

\* One iteration of `while index < data.len()`.  The iterations explored are
\* capped one past the length of the snapshot.
PaintIter ==
    /\ paintPc = "loop"
    /\ index < Len(data)
    /\ Len(shape) <= 3 * Len(data)
    /\ shape' = shape \o PathElements(index, width, prev, data[index + 1])
    /\ prev' = data[index + 1]
    /\ index' = index + Step(Len(data), width)
    /\ UNCHANGED <<audioVars, pumpVars, sink, sinkOpen, mainPc, uiVars,
                   paintPc, width, stroked, paints, firstShape>>

\* The loop condition fails: ctx.stroke(shape, &Color::RED, 3.0) and return.
PaintStroke ==
    /\ paintPc = "loop"
    /\ index >= Len(data)
    /\ stroked' = TRUE
    /\ paintPc' = "done"
    /\ paints' = paints + 1
    /\ firstShape' = IF paints = 0
                     THEN [shape |-> shape, stroked |-> TRUE]
                     ELSE firstShape
    /\ UNCHANGED <<audioVars, pumpVars, sink, sinkOpen, mainPc, uiVars,
                   width, index, prev, shape>>

\* paint is called on a view state and a drawing area of any width.
PaintInit ==
    /\ data \in PaintInputs
    /\ width \in 1..MaxWidth
    /\ PaintIdle
    /\ queue = <<>>
    /\ produced = <<>>
    /\ streamsAlive = TRUE
    /\ buffer = InitialBuffer
    /\ position = 0
    /\ pumpPc = "drain"
    /\ written = <<>>
    /\ popped = 0
    /\ tick = 1
    /\ attempts = 0
    /\ lateAttempts = 0
    /\ emitted = <<>>
    /\ sink = <<>>
    /\ sinkOpen = TRUE
    /\ mainPc = "launch"
    /\ delivered = 0
    /\ paintRequested = TRUE
    /\ lastEvent = "none"

PaintNext ==
    \/ PaintBegin
    \/ PaintIter
    \/ PaintStroke

PaintSpec == PaintInit /\ [][PaintNext]_vars

\* ---- the drain phase against a callback that never stops -------------------
\* The audio callback with no limit on the number of calls.  The history of
\* pushes is not kept here.
StreamPush ==
    /\ streamsAlive
    /\ \E s \in Samples : queue' = QueuePush(queue, s)
    /\ UNCHANGED <<produced, streamsAlive, pumpVars, sink, sinkOpen, mainPc,
                   uiVars, paintVars>>

\* Faulty variant: the pump polls the queue again when it is empty.
StreamPop_Spin ==
    /\ pumpPc = "drain"
    /\ IF QueuePopIsSome(queue)
       THEN /\ buffer' = VecSet(buffer, WriteIndex(position), QueuePopValue(queue))
            /\ position' = (position + 1) % buffer_size
            /\ popped' = IF popped <= QueueCap THEN popped + 1 ELSE popped
            /\ queue' = QueuePopRest(queue)
            /\ pumpPc' = "drain"
       ELSE /\ pumpPc' = "drain"
            /\ UNCHANGED <<buffer, position, popped, queue>>
    /\ UNCHANGED <<produced, streamsAlive, written, tick, attempts,
                   lateAttempts, emitted, sink, sinkOpen, mainPc, uiVars,
                   paintVars>>

\* One evaluation of `while let Some(sample) = queue_handle.pop()` with the
\* loop body, as PumpPop.  The history of writes is not kept, popped stops
\* counting past QueueCap + 1 and position is kept modulo buffer_size, which
\* is all the code reads of it.
StreamPop ==
    /\ pumpPc = "drain"
    /\ IF QueuePopIsSome(queue)
       THEN /\ buffer' = VecSet(buffer, WriteIndex(position), QueuePopValue(queue))
            /\ position' = (position + 1) % buffer_size
            /\ popped' = IF popped <= QueueCap THEN popped + 1 ELSE popped
            /\ queue' = QueuePopRest(queue)
            /\ pumpPc' = "drain"
       ELSE /\ pumpPc' = "publish"
            /\ UNCHANGED <<buffer, position, popped, queue>>
    /\ UNCHANGED <<produced, streamsAlive, written, tick, attempts,
                   lateAttempts, emitted, sink, sinkOpen, mainPc, uiVars,
                   paintVars>>

\* Faulty variant: the result of submit_command is ignored.
StreamSubmit_NoBreak ==
    /\ pumpPc = "publish"
    /\ pumpPc' = "sleep"
    /\ lateAttempts' = IF sinkOpen THEN lateAttempts
                       ELSE IF lateAttempts < 2 THEN lateAttempts + 1 ELSE 2
    /\ UNCHANGED <<audioVars, buffer, position, written, popped, tick,
                   attempts, emitted, sink, sinkOpen, mainPc, uiVars, paintVars>>

\* event_sink.submit_command(..) and `break` when it is an error, as
\* PumpSubmit.  The commands accepted are not kept here; the attempts made
\* after the sink closed are counted.
StreamSubmit ==
    /\ pumpPc = "publish"
    /\ IF sinkOpen
       THEN /\ pumpPc' = "sleep"
            /\ UNCHANGED lateAttempts
       ELSE /\ pumpPc' = "terminated"
            /\ lateAttempts' = lateAttempts + 1
    /\ UNCHANGED <<audioVars, buffer, position, written, popped, tick,
                   attempts, emitted, sink, sinkOpen, mainPc, uiVars, paintVars>>

\* thread::sleep(Duration::from_millis(100)), then the next iteration, with
\* no limit on the number of iterations.
StreamSleep ==
    /\ pumpPc = "sleep"
    /\ pumpPc' = "drain"
    /\ popped' = 0
    /\ UNCHANGED <<audioVars, buffer, position, written, tick, attempts,
                   lateAttempts, emitted, sink, sinkOpen, mainPc, uiVars,
                   paintVars>>

StreamNext ==
    \/ StreamPush
    \/ StreamPop
    \/ StreamSubmit
    \/ StreamSleep
    \/ UiClose
    \/ MainExit

StreamPumpStep == StreamPop \/ StreamSubmit \/ StreamSleep

\* The pump thread and main keep being scheduled; nothing is assumed of the
\* audio callback.
StreamSpec ==
    Init /\ [][StreamNext]_vars /\ WF_vars(StreamPumpStep) /\ WF_vars(MainExit)

\* ---- properties ------------------------------------------------------------

\* C1: ring semantics.  With P = position samples written in total, slot
\* (i mod L) holds the i-th written sample for every i in max(0, P-L)..P-1,
\* and while P < L the slots P..L-1 still hold the initial 0.0.
C1_RingSemantics ==
    /\ position = Len(written)
    /\ Len(buffer) = buffer_size
    /\ \A i \in 0..(position - 1) :
          i >= position - buffer_size => buffer[(i % buffer_size) + 1] = written[i + 1]
    /\ position < buffer_size =>
          \A j \in position..(buffer_size - 1) : buffer[j + 1] = 0

\* The ring has wrapped in a later iteration and the overwritten slot holds
\* the newer sample, which differs from the one it replaced.
C1_Witness ==
    /\ position > buffer_size
    /\ tick > 1
    /\ written[position] # written[position - buffer_size]
    /\ buffer[((position - 1) % buffer_size) + 1] = written[position]

\* No call of the audio callback found the queue full.
NoOverflow == \A k \in 1..Len(produced) : produced[k].ok

C4_PumpStateMachine ==
    /\ pumpPc = "drain"
    /\ [][(pumpPc # "terminated" /\ pumpPc' = "terminated") =>
            (pumpPc = "publish" /\ ~sinkOpen /\ attempts' = attempts + 1)]_vars
    /\ [][(pumpPc = "drain" /\ ~QueuePopIsSome(queue) /\ pumpPc' # pumpPc) =>
            (pumpPc' = "publish")]_vars
    /\ [][(pumpPc = "terminated") =>
            (/\ pumpPc' = "terminated"
             /\ Len(queue') >= Len(queue)
             /\ UNCHANGED <<buffer, position, written, popped, tick,
                            attempts, lateAttempts, emitted, sink>>)]_vars

\* The pump has terminated and the audio callback has pushed since: the
\* sample stays in the queue.
C4_Witness ==
    /\ pumpPc = "terminated"
    /\ queue # <<>>
    /\ Len(written) > 0

\* C5: clean shutdown.  Once the sink is closed the pump eventually
\* terminates; it makes at most one submission attempt after the close, that
\* attempt is the one that terminates it, and no command is accepted after
\* the close.
C5_CleanShutdown ==
    /\ (~sinkOpen) ~> (pumpPc = "terminated")
    /\ [](lateAttempts <= 1)
    /\ []((lateAttempts = 1) <=> (pumpPc = "terminated"))
    /\ [][((~sinkOpen) /\ pumpPc = "publish" /\ pumpPc' # pumpPc) =>
            (pumpPc' = "terminated" /\ lateAttempts' = lateAttempts + 1)]_vars

\* The sink closed after the pump had written samples, main dropped the
\* streams and the pump terminated on its next submission.
C5_Witness ==
    /\ pumpPc = "terminated"
    /\ lateAttempts = 1
    /\ ~streamsAlive
    /\ buffer # InitialBuffer

\* C6: a submitted snapshot is a raw copy of the display buffer at the moment
\* of publishing: length L and slot j equal to buffer slot j, wherever the
\* write position is.
C6_SnapshotIsRawCopy ==
    [][emitted' # emitted =>
        LET e == emitted'[Len(emitted')]
            c == sink'[Len(sink')]
        IN /\ Len(emitted') = Len(emitted) + 1
           /\ Len(e.snapshot) = buffer_size
           /\ \A j \in 1..buffer_size : e.snapshot[j] = buffer[j]
           /\ c.payload = e.snapshot
           /\ c.selector = DRAW_AUDIO]_vars

\* A snapshot was published with the write position inside the ring, where
\* the raw copy differs from the ring read oldest sample first.
C6_Witness ==
    \E k \in 1..Len(emitted) :
        /\ emitted[k].position > buffer_size
        /\ emitted[k].position % buffer_size # 0
        /\ emitted[k].snapshot # Rotated(emitted[k].snapshot, emitted[k].position)

\* C7: snapshot immutability.  A write into the display buffer changes no
\* command in flight, no accepted snapshot and not the view state; the view
\* state changes only by taking the payload of the next command.
C7_SnapshotImmutable ==
    /\ [][buffer' # buffer => (sink' = sink /\ emitted' = emitted /\ data' = data)]_vars
    /\ [][data' # data =>
            (sink # <<>> /\ data' = Head(sink).payload /\ delivered' = delivered + 1)]_vars
    /\ [](\A k \in 1..Len(sink) : sink[k].payload = emitted[delivered + k].snapshot)

\* The buffer was written after a snapshot reached the view and while another
\* one is in flight: both differ from the buffer now.
C7_Witness ==
    /\ delivered >= 1
    /\ sink # <<>>
    /\ data # buffer
    /\ sink[1].payload # buffer
    /\ data = emitted[delivered].snapshot

\* C8: snapshot delivery order.  The view state is empty until the first
\* delivery and after the n-th delivery it is the n-th accepted snapshot; the
\* commands still in flight are the later ones, in submission order.
C8_DeliveryOrder ==
    /\ delivered <= Len(emitted)
    /\ data = IF delivered = 0 THEN <<>> ELSE emitted[delivered].snapshot
    /\ Len(sink) = Len(emitted) - delivered
    /\ \A k \in 1..Len(sink) : sink[k].payload = emitted[delivered + k].snapshot

\* Two different snapshots were delivered one after the other.
C8_Witness ==
    /\ delivered = 2
    /\ Len(emitted) = 2
    /\ emitted[1].snapshot # emitted[2].snapshot
    /\ data = emitted[2].snapshot

\* C9: always-dirty view state.  Handling a draw_audio command leaves a paint
\* requested, also when the snapshot equals the view state: `same` is false
\* for the old and the new view state whatever they hold.
C9_AlwaysDirty ==
    [][delivered' # delivered => (paintRequested' /\ ~same(data, data'))]_vars

\* The last command carried a snapshot equal to the view state and a paint
\* is requested.
C9_Witness ==
    /\ lastEvent = "draw_same"
    /\ delivered >= 2
    /\ paintRequested

\* C10: burst then idle.  Every iteration makes exactly one submission, and
\* while the sink is open that submission is accepted; a snapshot published
\* by an iteration that popped nothing has the write position and the
\* contents of the previous one.
C10_OneSnapshotPerIteration ==
    /\ attempts = IF pumpPc \in {"sleep", "terminated"} THEN tick ELSE tick - 1
    /\ Len(emitted) = attempts - lateAttempts
    /\ \A k \in 2..Len(emitted) :
          emitted[k].popped = 0 =>
              /\ emitted[k].position = emitted[k - 1].position
              /\ emitted[k].snapshot = emitted[k - 1].snapshot
    /\ (pumpPc = "sleep" /\ popped = 0 /\ Len(emitted) >= 2) =>
          (/\ buffer = emitted[Len(emitted) - 1].snapshot
           /\ position = emitted[Len(emitted) - 1].position)

\* A burst filled the ring in one iteration and the following iteration
\* popped nothing.
C10_Witness ==
    /\ Len(emitted) >= 2
    /\ emitted[1].popped >= buffer_size
    /\ emitted[2].popped = 0
    /\ emitted[2].snapshot # InitialBuffer
    /\ pumpPc = "sleep"

C12_ZeroLengthPaint ==
    /\ paintPc # "panic"
    /\ (data = <<>>) =>
          /\ paintPc \in {"idle", "done"}
          /\ shape = <<>>
          /\ ~stroked
          /\ index = 0

\* paint has returned on the view state of the launch.
C12_Witness ==
    /\ data = <<>>
    /\ delivered = 0
    /\ paintPc = "done"
    /\ paints >= 1

\* C13: paint idempotence.  A second paint of the same view state with the
\* same width appends the same path elements, at the same indices, and
\* strokes as the first did; paint changes neither the view state nor the
\* drawing area.
C13_PaintIdempotent ==
    /\ []((paintPc = "done" /\ paints >= 2) =>
            (shape = firstShape.shape /\ stroked = firstShape.stroked))
    /\ []((paintPc = "loop" /\ paints >= 1) =>
            (/\ Len(shape) <= Len(firstShape.shape)
             /\ shape = SubSeq(firstShape.shape, 1, Len(shape))))
    /\ [][data' = data /\ width' = width]_vars

\* Two paints of a snapshot whose last visited sample differs from its first
\* have returned with a stroked path.
C13_Witness ==
    /\ paintPc = "done"
    /\ paints = 2
    /\ stroked
    /\ Len(shape) >= 6
    /\ prev # data[1]

\* C19: paint terminates.  Every iteration of the loop moves the index
\* forward, so the loop makes at most N iterations on a snapshot of length
\* N, whatever the width.
C19_PaintTerminates ==
    /\ [][(paintPc = "loop" /\ shape' # shape) => index' > index]_vars
    /\ [](Len(shape) <= 3 * Len(data))

C15_PhaseOrdering ==
    /\ [][(pumpPc' = "publish" /\ pumpPc # "publish") =>
            (pumpPc = "drain" /\ queue = <<>> /\ queue' = <<>>)]_vars
    /\ [][(attempts' # attempts) =>
            (/\ pumpPc = "publish"
             /\ attempts' = attempts + 1
             /\ tick = attempts + 1)]_vars
    /\ [][(tick' # tick) =>
            (pumpPc = "sleep" /\ tick' = tick + 1 /\ attempts = tick)]_vars
    /\ [][(lateAttempts >= 1) => (tick' = tick /\ pumpPc' = pumpPc)]_vars

\* The pump has slept between two submissions, the second of which was
\* rejected, after the callback had pushed during a drain phase.
C15_Witness ==
    /\ pumpPc = "terminated"
    /\ attempts = 2
    /\ tick = 2
    /\ Len(emitted) = 1
    /\ Len(written) >= 2

\* C16: fixed lengths.  The display buffer keeps the length it was resized
\* to (buffer_size, which stands for 5 * 4410 = 22050), every accepted
\* snapshot and every command payload has that length, and the view state
\* has length 0 before the first delivery and that length after it.
C16_FixedLengths ==
    /\ Len(buffer) = buffer_size
    /\ \A k \in 1..Len(emitted) : Len(emitted[k].snapshot) = buffer_size
    /\ \A k \in 1..Len(sink) : Len(sink[k].payload) = buffer_size
    /\ Len(data) = IF delivered = 0 THEN 0 ELSE buffer_size

\* The ring has wrapped, a snapshot taken after the wrap reached the view
\* and the pump has shut down.
C16_Witness ==
    /\ position > buffer_size
    /\ pumpPc = "terminated"
    /\ delivered >= 1
    /\ emitted[delivered].position > buffer_size
    /\ Len(data) = buffer_size

\* What the UI thread has handled last when it was not a DRAW_AUDIO command:
\* another command or event ("other"), lifecycle or layout ("passive"), paint.
NonDrawEvents == {"other", "passive", "paint"}

\* C17: data flows from audio to UI only.  The view state changes only by
\* the delivery of a DRAW_AUDIO command; other commands and events,
\* lifecycle, layout and paint leave it as it is; and no step of the UI
\* thread changes the sample queue, the display buffer or the write position.
C17_UnidirectionalFlow ==
    /\ [][(data' # data) =>
            (/\ sink # <<>>
             /\ Head(sink).selector = DRAW_AUDIO
             /\ delivered' = delivered + 1)]_vars
    /\ [][(lastEvent' # lastEvent /\ lastEvent' \in NonDrawEvents) =>
            (data' = data /\ delivered' = delivered /\ sink' = sink)]_vars
    /\ [][(uiVars' # uiVars) =>
            UNCHANGED <<queue, produced, buffer, position, written, pumpPc>>]_vars

\* The view holds a delivered snapshot and has since handled another event,
\* while samples wait in the queue and the buffer has moved on.
C17_Witness ==
    /\ delivered >= 1
    /\ lastEvent \in NonDrawEvents
    /\ data = emitted[delivered].snapshot
    /\ data # InitialBuffer
    /\ data # buffer
    /\ queue # <<>>

\* C18: shutdown ordering.  While the UI loop runs the audio streams are
\* alive; they are dropped only by main after the loop has returned; and
\* main then goes on without waiting for the pump or the audio callback.
C18_ShutdownOrdering ==
    /\ []((mainPc = "launch") => streamsAlive)
    /\ []((~streamsAlive) => (mainPc = "exited" /\ ~sinkOpen))
    /\ [][(streamsAlive /\ ~streamsAlive') =>
            (mainPc = "returned" /\ mainPc' = "exited")]_vars
    /\ []((mainPc = "returned") => ENABLED MainExit)

\* The streams were dropped while the pump was still running with a sample
\* left in the queue.
C18_Witness ==
    /\ ~streamsAlive
    /\ mainPc = "exited"
    /\ pumpPc \in {"drain", "sleep"}
    /\ queue # <<>>
====
